---- MODULE Spec2Model ----
(***************************************************************************)
(* Client-side session lifecycle of the Cloud Resource Auto-Scaler         *)
(* front end: the token store (utils/storage.ts), the React session flag   *)
(* (context/AuthContext.tsx), the axios request/response interceptors      *)
(* (api/axiosInstance.ts), the route guards (App.tsx, ProtectedRoute,      *)
(* PublicRoute) and the polling timer of the metrics-detail screen         *)
(* (pages/InstanceMetricsPage.tsx).                                        *)
(*                                                                         *)
(* One step of the model is one task of the browser's event loop (a user   *)
(* event, a timer callback, the arrival of a response), except that the    *)
(* promise continuation of the caller of a request is a step of its own    *)
(* (CallerSettle) that runs before any other task, as microtasks do.       *)
(***************************************************************************)
EXTENDS Integers, Sequences, FiniteSets, Bags, TLC

\* ---------------------------------------------------------------- bounds
MaxNow == 1        \* the clock runs over the seconds 0..MaxNow
MaxReq == 2        \* requests in flight at once
MaxTimers == 2     \* interval timers the window can hold at once
MaxRedirects == 2  \* assignments of window.location.href in one document
MaxCycles == 2     \* fetchData calls of the polling effect and its timer in one document
MaxSims == 1       \* submissions of the simulation form in one document
MaxChars == 4      \* characters of the password inputs before they are repeated

\* ---------------------------------------------------------------- tokens
\* A token is the string kept under 'auth_token'.  It is modelled by what
\* decodeJwtPayload can tell about it: the number of dot-separated segments,
\* what atob and JSON.parse make of the middle one, and the exp claim.
\*   mid: "bad64"   atob throws
\*        "notjson" atob succeeds, JSON.parse throws
\*        "null", "zero", "number", "string", "array", "object": the JSON value
\*   expType: typeof payload.exp ("undefined", "number", "string")
NoToken == [segs |-> 0, mid |-> "none", expType |-> "undefined", exp |-> 0]

Jwt(n, mid, expType, exp) == [segs |-> n, mid |-> mid, expType |-> expType, exp |-> exp]

TShort == Jwt(3, "object", "number", 1)            \* expires at second 1
TNoExp == Jwt(3, "object", "undefined", 0)         \* no exp claim
TTwoSegs == Jwt(2, "object", "number", 1)          \* not three segments

\* the tokens a login response (or an earlier session) can have stored
LoginTokens == {TShort, TNoExp, TTwoSegs}

JsonNull == [type |-> "null", expType |-> "undefined", exp |-> 0]

\* storage.ts decodeJwtPayload: null when the split, atob or JSON.parse fails
decodeJwtPayload(t) ==
    IF t.segs # 3 THEN JsonNull
    ELSE IF t.mid = "bad64" THEN JsonNull
    ELSE IF t.mid = "notjson" THEN JsonNull
    ELSE IF t.mid = "object"
         THEN [type |-> "object", expType |-> t.expType, exp |-> t.exp]
         ELSE [type |-> t.mid, expType |-> "undefined", exp |-> 0]

\* JavaScript truthiness of a parsed JSON value (!payload)
Truthy(v) == v.type \notin {"null", "zero", "false", "emptystring"}

\* storage.ts isTokenValid
isTokenValid(t, nowSeconds) ==
    LET payload == decodeJwtPayload(t) IN
    IF ~Truthy(payload) THEN FALSE
    ELSE IF payload.expType # "number" THEN TRUE
    ELSE payload.exp > nowSeconds

VARIABLES
    token,               \* localStorage['auth_token'] (NoToken: getItem gives null)
    now,                 \* Math.floor(Date.now() / 1000)
    phase,               \* "loading": document loaded, nothing rendered;
                         \* "rendered": AuthProvider rendered (useState initialiser);
                         \* "mounted": AuthProvider's mount effect has run
    isAuthenticated,     \* AuthProvider's state
    pathname,            \* window.location.pathname
    instanceId,          \* the :instanceId route parameter on the metrics route
    navPending,          \* window.location.href was assigned, the load has not committed
    redirects,           \* assignments of window.location.href in this document
    inflight,            \* the bag of the requests sent and not yet answered
    settled,             \* the outcome handed to the caller, its continuation not yet run
    timers,              \* the live interval timers of the window
    pollingIntervalRef,  \* InstanceMetricsPage's pollingIntervalRef.current
    last,                \* the operation that produced this state ("load", "init",
                         \* "mountEffect", "login", "logout", "response", "other")
                         \* and, for "response", the response as it arrived
    \* InstanceMetricsPage in detail (specification SpecPoll)
    cycles,              \* the fetchData calls with a sub-request still unanswered
    nextCycle,           \* fetchData calls made in this document
    sims,                \* the simulateMetrics requests in flight
    simCount,            \* submissions of the simulation form in this document
    simulateLoading,     \* the page's simulateLoading state
    metrics,             \* the page's metrics state: the cycle whose data it shows
    decisions,           \* the page's decisions state
    isMonitoring,        \* the page's isMonitoring state
    loading,             \* the page's loading state
    error,               \* the page's error state
    \* the forms of LoginPage, RegisterPage and InstancesListPage (specification SpecForms)
    form,                \* the fields of the form of the page on screen
    formError,           \* that page's error (registerError) state
    formLoading          \* that page's loading (registerLoading) state

screenVars == <<cycles, nextCycle, sims, simCount, simulateLoading, metrics, decisions,
                isMonitoring, loading, error>>

formVars == <<form, formError, formLoading>>

vars == <<token, now, phase, isAuthenticated, pathname, instanceId, navPending,
          redirects, inflight, settled, timers, pollingIntervalRef, last, screenVars,
          formVars>>

\* ---------------------------------------------------------------- values
Paths == {"/", "/login", "/register", "/instances", "/metrics"}
InstanceIds == {"i-1", "i-2"}
NoId == "none"
NullRef == 0

NoHeader == [scheme |-> "none", cred |-> NoToken]
Bearer(t) == [scheme |-> "Bearer", cred |-> t]

\* a request in flight: the service call it came from and the Authorization
\* header it carries
Request(kind, auth) == [kind |-> kind, auth |-> auth]

NoData == [status |-> -1, data |-> NoToken]
NotSettled == [kind |-> "idle", resp |-> NoData]

\* what the backend can answer: 0 stands for a failure with no response at all
Statuses == {200, 401, 500, 0}
Responses(kind) ==
    {[status |-> s, data |-> NoToken] : s \in Statuses \ (IF kind = "login" THEN {200} ELSE {})}
    \cup (IF kind = "login" THEN {[status |-> 200, data |-> t] : t \in LoginTokens} ELSE {})


\* the operation that produced a state, and the response it took off the wire
Op(name) == [op |-> name, resp |-> NoData]

\* ---------------------------------------------------------------- storage.ts
getToken == token
setToken(t) == t
removeToken_Keeps == token
removeToken == NoToken

\* storage.ts isAuthenticated, evaluated on store value tk at second n
checkAuth(tk, n) == IF tk = NoToken THEN FALSE ELSE isTokenValid(tk, n)

\* ---------------------------------------------------------------- axiosInstance.ts
RequestHeader_Never(tk) == NoHeader

\* request interceptor: the Authorization header given the value getToken() returns
RequestHeader(tk) == IF tk # NoToken THEN Bearer(tk) ELSE NoHeader

IsAuthFailure_AnyError(resp) == resp.status # 200
IsAuthFailure_Never(resp) == FALSE

\* response interceptor: error.response?.status === 401
IsAuthFailure(resp) == resp.status = 401

ShouldRedirect_Always(p) == TRUE

\* response interceptor: window.location.pathname !== '/login'
ShouldRedirect(p) == p # "/login"

InterceptorResult_Swallows(resp) == IF resp.status = 200 THEN resp ELSE NoData

\* what the interceptor hands on: the response it returns, the error it rejects with
InterceptorResult(resp) == resp

HasFree(infl) == BagCardinality(infl) < MaxReq

\* a service call made while the store holds tk
Send(kind, tk, infl) ==
    infl (+) SetToBag({Request(kind, RequestHeader(tk))})

\* ---------------------------------------------------------------- route guards
Route_PublicOpen(p, auth) ==
    IF p \in {"/instances", "/metrics"} /\ ~auth THEN "/" ELSE p

\* App.tsx: ProtectedRoute sends an unauthenticated visitor to "/", PublicRoute
\* sends an authenticated one to "/instances"
Route(p, auth) ==
    IF p \in {"/instances", "/metrics"} /\ ~auth THEN "/"
    ELSE IF p \in {"/login", "/register"} /\ auth THEN "/instances"
    ELSE p

\* ---------------------------------------------------------------- polling effect
Timer(n, subject) == [id |-> n, subject |-> subject]
TimerIds(ts) == {t.id : t \in ts}
\* setInterval returns an id no timer created before has; the model reuses the
\* ids of timers cleared before this render (used: the ids live when it began)
CanSetInterval(used) == Cardinality(used) < MaxTimers
NewTimerId(used) ==
    CHOOSE n \in 1..MaxTimers : n \notin used /\ \A m \in 1..MaxTimers : m \notin used => n <= m

EffectCleanup_NoClear(ts, ref) == [timers |-> ts, ref |-> NullRef]

\* the effect's cleanup: clearInterval(pollingIntervalRef.current), then null
EffectCleanup(ts, ref) ==
    IF ref # NullRef
    THEN [timers |-> {t \in ts : t.id # ref}, ref |-> NullRef]
    ELSE [timers |-> ts, ref |-> ref]

EffectSetup_NoInterval(ts, subject, used) == [timers |-> ts, ref |-> NewTimerId(used)]

\* the effect's body after fetchData(): pollingIntervalRef.current = setInterval(...)
EffectSetup(ts, subject, used) ==
    LET n == NewTimerId(used) IN [timers |-> ts \cup {Timer(n, subject)}, ref |-> n]

\* React commits a render of path p0 (and route parameter id0) with session flag
\* auth: the guards redirect, pages unmount and mount, their effects run.
\* tk is the store and infl the requests in flight when the effects run.
Render(p0, id0, auth, tk, infl) ==
    LET p == Route(p0, auth)
        id == IF p = "/metrics" THEN id0 ELSE NoId
        wasMetrics == phase # "loading" /\ pathname = "/metrics"
        wasInstances == phase # "loading" /\ pathname = "/instances"
        unmount == wasMetrics /\ (p # "/metrics" \/ id # instanceId)
        mount == p = "/metrics" /\ (~wasMetrics \/ id # instanceId)
        mountInstances == p = "/instances" /\ ~wasInstances
        c == IF unmount THEN EffectCleanup(timers, pollingIntervalRef)
             ELSE [timers |-> timers, ref |-> pollingIntervalRef]
        used == TimerIds(timers)
    IN  /\ mount => CanSetInterval(used)
        /\ (mount \/ mountInstances) => HasFree(infl)
        /\ pathname' = p
        /\ instanceId' = id
        /\ timers' = IF mount THEN EffectSetup(c.timers, id, used).timers ELSE c.timers
        /\ pollingIntervalRef' = IF mount THEN EffectSetup(c.timers, id, used).ref ELSE c.ref
        /\ inflight' = IF mount THEN Send("metrics", tk, infl)
                       ELSE IF mountInstances THEN Send("instances", tk, infl)
                       ELSE infl

\* ---------------------------------------------------------------- metrics screen
\* the data a slot shows is named by the fetch cycle that brought it
NoCycle == 0

\* err.message: the service function that threw and the response it threw on
NoError == [from |-> "none", status |-> -1]
ErrorMessage_None(sub, resp) == NoError
ErrorMessage_Hides401(sub, resp) ==
    IF resp.status = 401 THEN NoError ELSE [from |-> sub, status |-> resp.status]
ErrorMessage(sub, resp) == [from |-> sub, status |-> resp.status]

\* the useState initialisers of InstanceMetricsPage; nothing requested yet
InitialPageState ==
    /\ cycles = {}
    /\ nextCycle = 0
    /\ sims = {}
    /\ simCount = 0
    /\ simulateLoading = FALSE
    /\ metrics = NoCycle
    /\ decisions = NoCycle
    /\ isMonitoring = NoCycle
    /\ loading = TRUE
    /\ error = NoError

\* ---------------------------------------------------------------- form input
\* A string typed into a field is the sequence of its characters.  The
\* character classes of the regular expressions, over the characters the
\* sample inputs use:
Upper == {"A", "B"}
Lower == {"a", "b", "c", "d", "e", "f", "g", "m", "o"}
Digits == {"1", "2"}
Letters == Upper \cup Lower

\* passwordValidation.ts: password.length >= 8
MinLength == 8

validatePasswordRules_DigitIsSpecial(password) ==
    [minLength |-> Len(password) >= MinLength,
     uppercase |-> \E i \in 1..Len(password) : password[i] \in Upper,
     lowercase |-> \E i \in 1..Len(password) : password[i] \in Lower,
     number    |-> \E i \in 1..Len(password) : password[i] \in Digits,
     special   |-> \E i \in 1..Len(password) : password[i] \notin Letters]

\* passwordValidation.ts validatePasswordRules
validatePasswordRules(password) ==
    [minLength |-> Len(password) >= MinLength,
     uppercase |-> \E i \in 1..Len(password) : password[i] \in Upper,
     lowercase |-> \E i \in 1..Len(password) : password[i] \in Lower,
     number    |-> \E i \in 1..Len(password) : password[i] \in Digits,
     special   |-> \E i \in 1..Len(password) : password[i] \notin Letters \cup Digits]

\* passwordValidation.ts isPasswordValid: Object.values(rules).every(Boolean)
isPasswordValid(password) ==
    LET rules == validatePasswordRules(password)
    IN \A k \in DOMAIN rules : rules[k]

\* authService.ts isValidPassword
isValidPassword(password) == isPasswordValid(password)

\* authService.ts isValidEmail:
\* /^[a-zA-Z0-9._%+-]+@[a-zA-Z0-9.-]+\.[a-zA-Z]{2,}$/ tested on the whole string.
\* at: the position of the @, dot: the position of the dot before the last part
isValidEmail(email) ==
    \E at \in 1..Len(email) : \E dot \in 1..Len(email) :
        /\ email[at] = "@"
        /\ email[dot] = "."
        /\ at >= 2
        /\ \A k \in 1..(at - 1) : email[k] \in Letters \cup Digits \cup {".", "_", "%", "+", "-"}
        /\ dot >= at + 2
        /\ \A k \in (at + 1)..(dot - 1) : email[k] \in Letters \cup Digits \cup {".", "-"}
        /\ Len(email) >= dot + 2
        /\ \A k \in (dot + 1)..Len(email) : email[k] \in Letters

\* what the user can have typed into an email field and into a password field
Emails ==
    {<<>>,
     <<"a", "@", "b", ".", "c", "o">>,
     <<"a", "@", "b", ".", "c">>,
     <<"a", "b", ".", "c", "o">>,
     <<"a", " ", "@", "b", ".", "c", "o">>}
Passwords ==
    {<<>>,
     <<"a", "b", "c">>,
     <<"A", "b", "c", "d", "e", "f", "1", "!">>,
     <<"A", "b", "c", "d", "e", "f", "g", "1">>,
     <<"A", "b", "1", "!">>}
\* and into the instance id and the region field of the registration form
InstanceIdInputs == {"", "i-1"}
RegionInputs == {"", "us-east-1"}

\* the useState initialisers of the three forms: every field ''
EmptyForm ==
    [email |-> <<>>, password |-> <<>>, confirmPassword |-> <<>>,
     instanceId |-> "", region |-> ""]

\* the forms the page at path p can hold
Forms(p) ==
    IF p = "/login"
    THEN {[EmptyForm EXCEPT !.email = e, !.password = pw] : e \in Emails, pw \in Passwords}
    ELSE IF p = "/register"
    THEN {[EmptyForm EXCEPT !.email = e, !.password = pw, !.confirmPassword = cp] :
            e \in Emails, pw \in Passwords, cp \in Passwords}
    ELSE IF p = "/instances"
    THEN {[EmptyForm EXCEPT !.instanceId = i, !.region = r] :
            i \in InstanceIdInputs, r \in RegionInputs}
    ELSE {EmptyForm}

\* the error state of a form page: null or a message
NoMessage == "null"

\* LoginPage.handleSubmit: the message its validation sets
LoginFormError(f) ==
    IF ~isValidEmail(f.email) \/ ~isValidPassword(f.password)
    THEN "Please enter valid email and password"
    ELSE NoMessage

RegisterFormError_NoConfirmation(f) ==
    IF f.email = <<>> \/ f.password = <<>> \/ f.confirmPassword = <<>>
    THEN "Please fill in all fields"
    ELSE IF ~isValidEmail(f.email) THEN "Please enter a valid email address"
    ELSE IF ~isValidPassword(f.password)
    THEN "Password must be at least 8 characters and include uppercase, lowercase, a number, and a special character"
    ELSE NoMessage

\* RegisterPage.handleSubmit: the message its validation sets
RegisterFormError(f) ==
    IF f.email = <<>> \/ f.password = <<>> \/ f.confirmPassword = <<>>
    THEN "Please fill in all fields"
    ELSE IF ~isValidEmail(f.email) THEN "Please enter a valid email address"
    ELSE IF ~isValidPassword(f.password)
    THEN "Password must be at least 8 characters and include uppercase, lowercase, a number, and a special character"
    ELSE IF f.password # f.confirmPassword THEN "Passwords do not match"
    ELSE NoMessage

\* InstancesListPage.handleRegister: the message its validation sets
InstanceFormError(f) ==
    IF f.instanceId = "" \/ f.region = ""
    THEN "Instance ID and Region are required"
    ELSE NoMessage

\* err.message of a failed service call: the service's own text
ServiceError(kind) ==
    IF kind = "login" THEN "Login failed. Please try again."
    ELSE IF kind = "register" THEN "Registration failed. Please try again."
    ELSE "Failed to register instance."

InitialFormState ==
    /\ form = EmptyForm
    /\ formError = NoMessage
    /\ formLoading = FALSE

\* ---------------------------------------------------------------- start-up
Init ==
    /\ token \in LoginTokens \cup {NoToken}
    /\ now = 0
    /\ phase = "loading"
    /\ isAuthenticated = FALSE
    /\ pathname \in Paths
    /\ instanceId \in (IF pathname = "/metrics" THEN InstanceIds ELSE {NoId})
    /\ navPending = FALSE
    /\ redirects = 0
    /\ inflight = EmptyBag
    /\ settled = NotSettled
    /\ timers = {}
    /\ pollingIntervalRef = NullRef
    /\ last = Op("load")
    /\ InitialPageState
    /\ InitialFormState

\* AuthProvider: useState<boolean>(checkAuth())
InitialAuth(tk, n) == checkAuth(tk, n)

\* AuthProvider's mount effect: setIsAuthenticated(!!getToken())
MountAuth(tk, n) == tk # NoToken

\* first render of the application
AuthProviderInit ==
    /\ phase = "loading"
    /\ phase' = "rendered"
    /\ isAuthenticated' = InitialAuth(getToken, now)
    /\ Render(pathname, instanceId, isAuthenticated', token, inflight)
    /\ last' = Op("init")
    /\ UNCHANGED <<token, now, navPending, redirects, settled>>
    /\ UNCHANGED screenVars
    /\ UNCHANGED formVars

\* AuthProvider's useEffect(() => {...}, [])
MountEffect ==
    /\ phase = "rendered"
    /\ phase' = "mounted"
    /\ isAuthenticated' = MountAuth(getToken, now)
    /\ Render(pathname, instanceId, isAuthenticated', token, inflight)
    /\ last' = Op("mountEffect")
    /\ UNCHANGED <<token, now, navPending, redirects, settled>>
    /\ UNCHANGED screenVars
    /\ UNCHANGED formVars

\* a second passes
ClockTick ==
    /\ now < MaxNow
    /\ now' = now + 1
    /\ last' = Op("other")
    /\ UNCHANGED <<token, phase, isAuthenticated, pathname, instanceId, navPending,
                   redirects, inflight, settled, timers, pollingIntervalRef>>
    /\ UNCHANGED screenVars
    /\ UNCHANGED formVars

\* the user's tasks run when the application is up and no continuation is queued
Ready == phase = "mounted" /\ settled = NotSettled

\* ---------------------------------------------------------------- AuthContext.tsx
LoginStore_Keeps(t) == token

\* login(token): saveToken(token); setIsAuthenticated(true)
LoginStore(t) == setToken(t)
LoginFlag == TRUE

LogoutStore_Keeps == token

\* logout(): removeToken(); setIsAuthenticated(false)
LogoutStore == removeToken
LogoutFlag == FALSE

\* ---------------------------------------------------------------- user events
\* a client-side navigation (a Link, navigate(), the history buttons)
UserNavigate(p, id) ==
    /\ Ready
    /\ p \in Paths
    /\ id \in (IF p = "/metrics" THEN InstanceIds ELSE {NoId})
    /\ <<p, id>> # <<pathname, instanceId>>
    /\ Render(p, id, isAuthenticated, token, inflight)
    /\ last' = Op("other")
    /\ UNCHANGED <<token, now, phase, isAuthenticated, navPending, redirects, settled>>
    /\ UNCHANGED screenVars
    /\ UNCHANGED formVars

\* LoginPage.handleSubmit with a valid form
SubmitLogin ==
    /\ Ready
    /\ pathname = "/login"
    /\ ~isAuthenticated
    /\ HasFree(inflight)
    /\ inflight' = Send("login", getToken, inflight)
    /\ last' = Op("other")
    /\ UNCHANGED <<token, now, phase, isAuthenticated, pathname, instanceId, navPending,
                   redirects, settled, timers, pollingIntervalRef>>
    /\ UNCHANGED screenVars
    /\ UNCHANGED formVars

\* RegisterPage.handleSubmit with a valid form
SubmitRegister ==
    /\ Ready
    /\ pathname = "/register"
    /\ HasFree(inflight)
    /\ inflight' = Send("register", getToken, inflight)
    /\ last' = Op("other")
    /\ UNCHANGED <<token, now, phase, isAuthenticated, pathname, instanceId, navPending,
                   redirects, settled, timers, pollingIntervalRef>>
    /\ UNCHANGED screenVars
    /\ UNCHANGED formVars

\* InstancesListPage: a service call made from a button, UserProfileButton's fetch
InstancesRequest ==
    /\ Ready
    /\ pathname = "/instances"
    /\ HasFree(inflight)
    /\ inflight' = Send("instances", getToken, inflight)
    /\ last' = Op("other")
    /\ UNCHANGED <<token, now, phase, isAuthenticated, pathname, instanceId, navPending,
                   redirects, settled, timers, pollingIntervalRef>>
    /\ UNCHANGED screenVars
    /\ UNCHANGED formVars

\* InstanceMetricsPage: fetchData(false) from a button
MetricsRefresh ==
    /\ Ready
    /\ pathname = "/metrics"
    /\ HasFree(inflight)
    /\ inflight' = Send("metrics", getToken, inflight)
    /\ last' = Op("other")
    /\ UNCHANGED <<token, now, phase, isAuthenticated, pathname, instanceId, navPending,
                   redirects, settled, timers, pollingIntervalRef>>
    /\ UNCHANGED screenVars
    /\ UNCHANGED formVars

\* InstanceMetricsPage: setMetricsLimit(another value); fetchData changes, so the polling
\* effect is cleaned up and run again
ChangeMetricsLimit ==
    /\ Ready
    /\ pathname = "/metrics"
    /\ HasFree(inflight)
    /\ LET c == EffectCleanup(timers, pollingIntervalRef) IN
        /\ CanSetInterval(TimerIds(timers))
        /\ timers' = EffectSetup(c.timers, instanceId, TimerIds(timers)).timers
        /\ pollingIntervalRef' = EffectSetup(c.timers, instanceId, TimerIds(timers)).ref
    /\ inflight' = Send("metrics", getToken, inflight)
    /\ last' = Op("other")
    /\ UNCHANGED <<token, now, phase, isAuthenticated, pathname, instanceId, navPending,
                   redirects, settled>>
    /\ UNCHANGED screenVars
    /\ UNCHANGED formVars

\* the callback of a live interval timer: fetchData(true)
TimerTick(t) ==
    /\ Ready
    /\ t \in timers
    /\ HasFree(inflight)
    /\ inflight' = Send("metrics", getToken, inflight)
    /\ last' = Op("other")
    /\ UNCHANGED <<token, now, phase, isAuthenticated, pathname, instanceId, navPending,
                   redirects, settled, timers, pollingIntervalRef>>
    /\ UNCHANGED screenVars
    /\ UNCHANGED formVars

\* handleLogout: logout(), then navigate('/login') on the instances list and
\* navigate('/') on the metrics screen
Logout ==
    /\ Ready
    /\ pathname \in {"/instances", "/metrics"}
    /\ token' = LogoutStore
    /\ isAuthenticated' = LogoutFlag
    /\ Render(IF pathname = "/instances" THEN "/login" ELSE "/", NoId,
              isAuthenticated', token', inflight)
    /\ last' = Op("logout")
    /\ UNCHANGED <<now, phase, navPending, redirects, settled>>
    /\ UNCHANGED screenVars
    /\ UNCHANGED formVars

\* ---------------------------------------------------------------- responses
\* the answer to request r arrives and runs through the response interceptor
ReceiveResponse(r, resp) ==
    /\ Ready
    /\ BagIn(r, inflight)
    /\ resp \in Responses(r.kind)
    /\ IF IsAuthFailure(resp)
       THEN /\ token' = removeToken
            /\ IF ShouldRedirect(pathname)
               THEN /\ redirects < MaxRedirects
                    /\ redirects' = redirects + 1
                    /\ navPending' = TRUE
               ELSE UNCHANGED <<redirects, navPending>>
       ELSE UNCHANGED <<token, redirects, navPending>>
    /\ inflight' = inflight (-) SetToBag({r})
    /\ settled' = [kind |-> r.kind, resp |-> InterceptorResult(resp)]
    /\ last' = [op |-> "response", resp |-> resp]
    /\ UNCHANGED <<now, phase, isAuthenticated, pathname, instanceId, timers,
                   pollingIntervalRef>>
    /\ UNCHANGED screenVars
    /\ UNCHANGED formVars

\* the continuation of the caller: the service's try/catch, then the page's
CallerSettle ==
    /\ settled # NotSettled
    /\ settled' = NotSettled
    /\ IF settled.kind = "login" /\ settled.resp.status = 200
       THEN \* setAuthToken(response.token); navigate('/instances')
            /\ token' = LoginStore(settled.resp.data)
            /\ isAuthenticated' = LoginFlag
            /\ Render("/instances", NoId, isAuthenticated', token', inflight)
            /\ last' = Op("login")
       ELSE IF settled.kind = "register" /\ settled.resp.status = 200
       THEN \* RegisterPage: await authService.login(email, password)
            /\ inflight' = Send("login", getToken, inflight)
            /\ last' = Op("other")
            /\ UNCHANGED <<token, isAuthenticated, pathname, instanceId, timers,
                           pollingIntervalRef>>
       ELSE /\ last' = Op("other")
            /\ UNCHANGED <<token, isAuthenticated, pathname, instanceId, timers,
                           pollingIntervalRef, inflight>>
    /\ UNCHANGED <<now, phase, navPending, redirects>>
    /\ UNCHANGED screenVars
    /\ UNCHANGED formVars

\* the load started by window.location.href = '/login' commits: a new document
NavigationCommit ==
    /\ navPending
    /\ settled = NotSettled
    /\ pathname' = "/login"
    /\ phase' = "loading"
    /\ isAuthenticated' = FALSE
    /\ instanceId' = NoId
    /\ navPending' = FALSE
    /\ redirects' = 0
    /\ inflight' = EmptyBag
    /\ timers' = {}
    /\ pollingIntervalRef' = NullRef
    /\ last' = Op("load")
    /\ cycles' = {}
    /\ nextCycle' = 0
    /\ sims' = {}
    /\ simCount' = 0
    /\ simulateLoading' = FALSE
    /\ metrics' = NoCycle
    /\ decisions' = NoCycle
    /\ isMonitoring' = NoCycle
    /\ loading' = TRUE
    /\ error' = NoError
    /\ form' = EmptyForm
    /\ formError' = NoMessage
    /\ formLoading' = FALSE
    /\ UNCHANGED <<token, now, settled>>

Next ==
    \/ AuthProviderInit
    \/ MountEffect
    \/ ClockTick
    \/ \E p \in Paths : \E id \in InstanceIds \cup {NoId} : UserNavigate(p, id)
    \/ SubmitLogin
    \/ SubmitRegister
    \/ InstancesRequest
    \/ MetricsRefresh
    \/ ChangeMetricsLimit
    \/ \E t \in timers : TimerTick(t)
    \/ Logout
    \/ \E r \in BagToSet(inflight) : \E resp \in Responses(r.kind) : ReceiveResponse(r, resp)
    \/ CallerSettle
    \/ NavigationCommit

Spec == Init /\ [][Next]_vars

\* ---------------------------------------------------------------- InstanceMetricsPage
\* The metrics screen in detail: every fetchData call with its three requests
\* (getMetrics, getScalingDecisions, getInstances), the simulation form and the
\* page's state.  The page is rendered for an open session; a response and the
\* promise continuations it wakes are one step.

Cycle_StatusLater(n, subject, by) ==
    [id |-> n, subject |-> subject, by |-> by,
     m |-> "pending", d |-> "pending", s |-> "answered", inner |-> "pending"]

\* a fetchData call: the instanceId its closure holds, what called it ("effect",
\* "timer", "simulate"), which of its requests are unanswered (m: getMetrics,
\* d: getScalingDecisions, s: getInstances) and the state of the promise of the
\* inner Promise.all([getMetrics, getScalingDecisions])
Cycle(n, subject, by) ==
    [id |-> n, subject |-> subject, by |-> by,
     m |-> "pending", d |-> "pending", s |-> "pending", inner |-> "pending"]

SubRequests == {"m", "d", "s"}

SetState_KeepsNewer(cur, value) == IF value > cur THEN value ELSE cur

\* a state setter (setMetrics, setDecisions, setIsMonitoring): the new value
\* replaces the current one
SetState(cur, value) == value

IsBackgroundRefresh_Never(by) == FALSE

\* the isBackgroundRefresh argument: true in the interval callback only
IsBackgroundRefresh(by) == by = "timer"

\* the page is on screen; its state setters do nothing once it is unmounted
PageMounted == phase = "mounted" /\ pathname = "/metrics"

\* the polling effect of the current render has run
EffectsRun == PageMounted /\ nextCycle > 0

\* the outer Promise.all([inner, fetchInstanceStatus()]) has not settled:
\* fetchInstanceStatus catches its error, so only the inner promise can reject it
OuterPending(c) ==
    \/ c.inner = "pending"
    \/ c.inner = "fulfilled" /\ c.s = "pending"

Answered(c) == \A sub \in SubRequests : c[sub] # "pending"

\* Promise.all of getMetrics and getScalingDecisions after request sub of c was
\* answered, with success or not: rejected by the first failure, fulfilled by
\* the second success
InnerAfter(c, sub, success) ==
    IF sub = "s" \/ c.inner # "pending" THEN c.inner
    ELSE IF ~success THEN "rejected"
    ELSE IF \A x \in {"m", "d"} \ {sub} : c[x] # "pending" THEN "fulfilled"
    ELSE "pending"

\* fetchData(isBackgroundRefresh) up to its await: the spinner, setError(null) and
\* the three requests
FetchData(subject, by) ==
    /\ by # "simulate" => nextCycle < MaxCycles
    /\ nextCycle' = IF by = "simulate" THEN nextCycle ELSE nextCycle + 1
    /\ cycles' = cycles \cup {Cycle(IF by = "simulate" THEN MaxCycles + simCount
                                     ELSE nextCycle + 1, subject, by)}
    /\ loading' = IF PageMounted /\ ~IsBackgroundRefresh(by) THEN TRUE ELSE loading
    /\ error' = IF PageMounted THEN NoError ELSE error

\* the polling effect for subject: the cleanup of its previous run, then
\* fetchData() and setInterval(() => fetchData(true), 30000)
RunPollingEffect(subject) ==
    LET c == EffectCleanup(timers, pollingIntervalRef)
        used == TimerIds(timers)
    IN  /\ CanSetInterval(used)
        /\ FetchData(subject, "effect")
        /\ timers' = EffectSetup(c.timers, subject, used).timers
        /\ pollingIntervalRef' = EffectSetup(c.timers, subject, used).ref

\* the response interceptor on the response to any request
ResponseInterceptor(resp) ==
    IF IsAuthFailure(resp)
    THEN /\ token' = removeToken
         /\ IF ShouldRedirect(pathname)
            THEN /\ redirects < MaxRedirects
                 /\ redirects' = redirects + 1
                 /\ navPending' = TRUE
            ELSE UNCHANGED <<redirects, navPending>>
    ELSE UNCHANGED <<token, redirects, navPending>>

\* the answers to the page's requests: a success, a 401, another error response
PageResponses == {r \in Responses("metrics") : r.status # 0}

\* the page has been rendered for a session that is open
InitPoll ==
    /\ token = TNoExp
    /\ now = 0
    /\ phase = "mounted"
    /\ isAuthenticated = TRUE
    /\ pathname = "/metrics"
    /\ instanceId = "i-1"
    /\ navPending = FALSE
    /\ redirects = 0
    /\ inflight = EmptyBag
    /\ settled = NotSettled
    /\ timers = {}
    /\ pollingIntervalRef = NullRef
    /\ last = Op("other")
    /\ InitialPageState
    /\ InitialFormState

\* the polling effect after the first render
PageMount ==
    /\ PageMounted
    /\ nextCycle = 0
    /\ RunPollingEffect(instanceId)
    /\ last' = Op("other")
    /\ UNCHANGED <<token, now, phase, isAuthenticated, pathname, instanceId, navPending,
                   redirects, inflight, settled, sims, simCount, simulateLoading, metrics,
                   decisions, isMonitoring>>
    /\ UNCHANGED formVars

\* the route parameter changes under the mounted page: the effect runs again
SubjectChange(id) ==
    /\ EffectsRun
    /\ id \in InstanceIds \ {instanceId}
    /\ instanceId' = id
    /\ RunPollingEffect(id)
    /\ last' = Op("other")
    /\ UNCHANGED <<token, now, phase, isAuthenticated, pathname, navPending,
                   redirects, inflight, settled, sims, simCount, simulateLoading, metrics,
                   decisions, isMonitoring>>
    /\ UNCHANGED formVars

\* the limit selector: setMetricsLimit gives a new fetchData, the effect runs again
LimitChange ==
    /\ EffectsRun
    /\ ~loading
    /\ RunPollingEffect(instanceId)
    /\ last' = Op("other")
    /\ UNCHANGED <<token, now, phase, isAuthenticated, pathname, instanceId, navPending,
                   redirects, inflight, settled, sims, simCount, simulateLoading, metrics,
                   decisions, isMonitoring>>
    /\ UNCHANGED formVars

\* the interval callback of timer t: fetchData(true)
PollTick(t) ==
    /\ t \in timers
    /\ FetchData(t.subject, "timer")
    /\ last' = Op("other")
    /\ UNCHANGED <<token, now, phase, isAuthenticated, pathname, instanceId, navPending,
                   redirects, inflight, settled, timers, pollingIntervalRef, sims,
                   simCount, simulateLoading, metrics, decisions, isMonitoring>>
    /\ UNCHANGED formVars

\* handleSimulateMetrics up to its await
SubmitSimulate ==
    /\ EffectsRun
    /\ ~loading
    /\ ~simulateLoading
    /\ simCount < MaxSims
    /\ simCount' = simCount + 1
    /\ simulateLoading' = TRUE
    /\ sims' = sims \cup {[subject |-> instanceId]}
    /\ last' = Op("other")
    /\ UNCHANGED <<token, now, phase, isAuthenticated, pathname, instanceId, navPending,
                   redirects, inflight, settled, timers, pollingIntervalRef, cycles,
                   nextCycle, metrics, decisions, isMonitoring, loading, error>>
    /\ UNCHANGED formVars

\* the answer to a simulateMetrics request: on success handleSimulateMetrics goes
\* on to await fetchData(false), the fetchData of the render it was submitted in
SimulateResponse(sim, resp) ==
    /\ sim \in sims
    /\ resp \in PageResponses
    /\ ResponseInterceptor(resp)
    /\ sims' = sims \ {sim}
    /\ IF resp.status = 200
       THEN /\ FetchData(sim.subject, "simulate")
            /\ UNCHANGED simulateLoading
       ELSE /\ simulateLoading' = IF PageMounted THEN FALSE ELSE simulateLoading
            /\ UNCHANGED <<cycles, nextCycle, loading, error>>
    /\ last' = [op |-> "response", resp |-> resp]
    /\ UNCHANGED <<now, phase, isAuthenticated, pathname, instanceId, inflight, settled,
                   timers, pollingIntervalRef, simCount, metrics, decisions, isMonitoring>>
    /\ UNCHANGED formVars

\* the answer to request sub of fetchData call c, and the continuations it wakes:
\* fetchInstanceStatus, the inner async function, fetchData's try/catch/finally and
\* the finally of handleSimulateMetrics
SubResponse(c, sub, resp) ==
    /\ c \in cycles
    /\ sub \in SubRequests
    /\ c[sub] = "pending"
    /\ resp \in PageResponses
    /\ ResponseInterceptor(resp)
    /\ LET success == resp.status = 200
           c2 == [c EXCEPT ![sub] = "answered", !.inner = InnerAfter(c, sub, success)]
           innerResolves == c.inner = "pending" /\ c2.inner = "fulfilled"
           outerSettles == OuterPending(c) /\ ~OuterPending(c2)
           outerRejects == outerSettles /\ c2.inner = "rejected"
           foreground == ~IsBackgroundRefresh(c.by)
       IN  /\ cycles' = (cycles \ {c}) \cup (IF Answered(c2) THEN {} ELSE {c2})
           /\ metrics' = IF PageMounted /\ innerResolves
                         THEN SetState(metrics, c.id) ELSE metrics
           /\ decisions' = IF PageMounted /\ innerResolves
                           THEN SetState(decisions, c.id) ELSE decisions
           /\ isMonitoring' = IF PageMounted /\ sub = "s" /\ success
                              THEN SetState(isMonitoring, c.id) ELSE isMonitoring
           /\ error' = IF ~PageMounted \/ ~outerSettles THEN error
                       ELSE IF ~outerRejects THEN NoError
                       ELSE IF foreground THEN ErrorMessage(sub, resp)
                       ELSE error
           /\ loading' = IF PageMounted /\ outerSettles /\ foreground
                         THEN FALSE ELSE loading
           /\ simulateLoading' = IF PageMounted /\ outerSettles /\ c.by = "simulate"
                                 THEN FALSE ELSE simulateLoading
    /\ last' = [op |-> "response", resp |-> resp]
    /\ UNCHANGED <<now, phase, isAuthenticated, pathname, instanceId, inflight, settled,
                   timers, pollingIntervalRef, nextCycle, sims, simCount>>
    /\ UNCHANGED formVars

\* handleLogout: logout(); navigate('/').  The page unmounts: the effect's cleanup
\* runs and the page's state is gone; its requests stay in flight
HandleLogout ==
    /\ EffectsRun
    /\ ~loading
    /\ token' = LogoutStore
    /\ isAuthenticated' = LogoutFlag
    /\ pathname' = Route("/", isAuthenticated')
    /\ instanceId' = NoId
    /\ timers' = EffectCleanup(timers, pollingIntervalRef).timers
    /\ pollingIntervalRef' = EffectCleanup(timers, pollingIntervalRef).ref
    /\ simulateLoading' = FALSE
    /\ metrics' = NoCycle
    /\ decisions' = NoCycle
    /\ isMonitoring' = NoCycle
    /\ loading' = TRUE
    /\ error' = NoError
    /\ last' = Op("logout")
    /\ UNCHANGED <<now, phase, navPending, redirects, inflight, settled, cycles,
                   nextCycle, sims, simCount>>
    /\ UNCHANGED formVars

\* the landing page's link to the login form
GoToLogin ==
    /\ phase = "mounted"
    /\ pathname = "/"
    /\ pathname' = Route("/login", isAuthenticated)
    /\ last' = Op("other")
    /\ UNCHANGED <<token, now, phase, isAuthenticated, instanceId, navPending, redirects,
                   inflight, settled, timers, pollingIntervalRef, screenVars>>
    /\ UNCHANGED formVars

NextPoll ==
    \/ PageMount
    \/ LimitChange
    \/ \E t \in timers : PollTick(t)
    \/ \E c \in cycles : \E sub \in SubRequests : \E resp \in PageResponses :
           SubResponse(c, sub, resp)
    \/ HandleLogout
    \/ GoToLogin
    \/ NavigationCommit

SpecPoll == InitPoll /\ [][NextPoll]_vars

\* the page with the browser's history buttons and the simulation form as well
NextScreen ==
    \/ NextPoll
    \/ \E id \in InstanceIds : SubjectChange(id)
    \/ SubmitSimulate
    \/ \E sim \in sims : \E resp \in PageResponses : SimulateResponse(sim, resp)

SpecScreen == InitPoll /\ [][NextScreen]_vars

\* the metrics screen with a route parameter that changes and its polling
\* timer, without the page's buttons
NextSwitch ==
    \/ PageMount
    \/ \E id \in InstanceIds : SubjectChange(id)
    \/ \E t \in timers : PollTick(t)
    \/ \E c \in cycles : \E sub \in SubRequests : \E resp \in PageResponses :
          SubResponse(c, sub, resp)
    \/ NavigationCommit

SpecSwitch == InitPoll /\ [][NextSwitch]_vars

\* ---------------------------------------------------------------- the forms
\* LoginPage, RegisterPage and the registration form of InstancesListPage:
\* the fields, the validation of a submission, the request it sends and the
\* continuation of the handler when the answer arrives (one step with the
\* answer).  The list state of InstancesListPage is left out.
FormPaths == {"/login", "/register", "/instances"}

InitForms ==
    /\ pathname \in FormPaths
    /\ isAuthenticated = (pathname = "/instances")
    /\ token = (IF isAuthenticated THEN TNoExp ELSE NoToken)
    /\ now = 0
    /\ phase = "mounted"
    /\ instanceId = NoId
    /\ navPending = FALSE
    /\ redirects = 0
    \* InstancesListPage's mount effect has called fetchInstances
    /\ inflight = (IF pathname = "/instances" THEN Send("instances", token, EmptyBag)
                   ELSE EmptyBag)
    /\ settled = NotSettled
    /\ timers = {}
    /\ pollingIntervalRef = NullRef
    /\ last = Op("other")
    /\ InitialPageState
    /\ InitialFormState

\* onChange of the fields: the user types another input
EditForm(f) ==
    /\ phase = "mounted"
    /\ ~formLoading
    /\ f \in Forms(pathname) \ {form}
    /\ form' = f
    /\ last' = Op("other")
    /\ UNCHANGED <<token, now, phase, isAuthenticated, pathname, instanceId, navPending,
                   redirects, inflight, settled, timers, pollingIntervalRef, screenVars,
                   formError, formLoading>>

\* LoginPage.handleSubmit up to its await
LoginHandleSubmit ==
    /\ phase = "mounted"
    /\ pathname = "/login"
    /\ ~formLoading
    /\ IF isAuthenticated
       THEN \* navigate('/instances', { replace: true })
            /\ Render("/instances", NoId, isAuthenticated, token, inflight)
            /\ form' = EmptyForm
            /\ formError' = NoMessage
            /\ UNCHANGED formLoading
       ELSE IF LoginFormError(form) # NoMessage
       THEN /\ formError' = LoginFormError(form)
            /\ UNCHANGED <<pathname, instanceId, timers, pollingIntervalRef, inflight,
                           form, formLoading>>
       ELSE /\ HasFree(inflight)
            /\ formError' = NoMessage
            /\ formLoading' = TRUE
            /\ inflight' = Send("login", getToken, inflight)
            /\ UNCHANGED <<pathname, instanceId, timers, pollingIntervalRef, form>>
    /\ last' = Op("submit")
    /\ UNCHANGED <<token, now, phase, isAuthenticated, navPending, redirects, settled,
                   screenVars>>

\* RegisterPage.handleSubmit up to its first await
RegisterHandleSubmit ==
    /\ phase = "mounted"
    /\ pathname = "/register"
    /\ ~formLoading
    /\ IF RegisterFormError(form) # NoMessage
       THEN /\ formError' = RegisterFormError(form)
            /\ UNCHANGED <<inflight, formLoading>>
       ELSE /\ HasFree(inflight)
            /\ formError' = NoMessage
            /\ formLoading' = TRUE
            /\ inflight' = Send("register", getToken, inflight)
    /\ last' = Op("submit")
    /\ UNCHANGED <<token, now, phase, isAuthenticated, pathname, instanceId, navPending,
                   redirects, settled, timers, pollingIntervalRef, screenVars, form>>

\* InstancesListPage.handleRegister up to its await
HandleRegister ==
    /\ phase = "mounted"
    /\ pathname = "/instances"
    /\ ~formLoading
    /\ IF InstanceFormError(form) # NoMessage
       THEN /\ formError' = InstanceFormError(form)
            /\ UNCHANGED <<inflight, formLoading>>
       ELSE /\ HasFree(inflight)
            /\ formError' = NoMessage
            /\ formLoading' = TRUE
            /\ inflight' = Send("registerInstance", getToken, inflight)
    /\ last' = Op("submit")
    /\ UNCHANGED <<token, now, phase, isAuthenticated, pathname, instanceId, navPending,
                   redirects, settled, timers, pollingIntervalRef, screenVars, form>>

\* the answer to request r of a form page arrives: the response interceptor,
\* the service's catch and the rest of the handler that awaited it
FormResponse(r, resp) ==
    /\ phase = "mounted"
    /\ BagIn(r, inflight)
    /\ resp \in Responses(r.kind)
    /\ IF resp.status = 200 /\ r.kind = "login"
       THEN \* setAuthToken(response.token); navigate('/instances')
            /\ token' = LoginStore(resp.data)
            /\ isAuthenticated' = LoginFlag
            /\ Render("/instances", NoId, isAuthenticated', token', inflight (-) SetToBag({r}))
            /\ form' = EmptyForm
            /\ formError' = NoMessage
            /\ formLoading' = FALSE
            /\ UNCHANGED <<redirects, navPending>>
       ELSE IF resp.status = 200 /\ r.kind = "register"
       THEN \* setSuccess(true); await authService.login(email, password)
            /\ inflight' = Send("login", getToken, inflight (-) SetToBag({r}))
            /\ UNCHANGED <<token, isAuthenticated, pathname, instanceId, timers,
                           pollingIntervalRef, redirects, navPending, formVars>>
       ELSE IF resp.status = 200 /\ r.kind = "registerInstance"
       THEN \* the form is reset; fetchInstances(); finally setRegisterLoading(false)
            /\ inflight' = Send("instances", getToken, inflight (-) SetToBag({r}))
            /\ form' = EmptyForm
            /\ formLoading' = FALSE
            /\ UNCHANGED <<token, isAuthenticated, pathname, instanceId, timers,
                           pollingIntervalRef, redirects, navPending, formError>>
       ELSE /\ ResponseInterceptor(resp)
            /\ inflight' = inflight (-) SetToBag({r})
            /\ IF resp.status # 200 /\ r.kind # "instances"
               THEN \* catch: setError(err.message); finally setLoading(false)
                    /\ formError' = ServiceError(r.kind)
                    /\ formLoading' = FALSE
               ELSE UNCHANGED <<formError, formLoading>>
            /\ UNCHANGED <<isAuthenticated, pathname, instanceId, timers,
                           pollingIntervalRef, form>>
    /\ last' = [op |-> "response", resp |-> resp]
    /\ UNCHANGED <<now, phase, settled, screenVars>>

NextForms ==
    \/ \E f \in Forms(pathname) : EditForm(f)
    \/ LoginHandleSubmit
    \/ RegisterHandleSubmit
    \/ HandleRegister
    \/ \E r \in BagToSet(inflight) : \E resp \in Responses(r.kind) : FormResponse(r, resp)
    \/ AuthProviderInit
    \/ MountEffect
    \/ NavigationCommit

SpecForms == InitForms /\ [][NextForms]_vars

\* ---------------------------------------------------------------- stored tokens
\* The application starts with any string under 'auth_token': every segment
\* count, every outcome of atob and JSON.parse on the middle segment, every
\* type of the exp claim.  AuthProvider's initialiser applies isTokenValid.
Mids == {"bad64", "notjson", "null", "zero", "false", "emptystring",
         "number", "string", "true", "array", "object"}
ExpTypes == {"undefined", "number", "string"}
MaxSegs == 4

Tokens ==
    {Jwt(n, "object", "number", e) : n \in 1..MaxSegs, e \in 0..(MaxNow + 1)}
    \cup {Jwt(n, "object", et, 0) : n \in 1..MaxSegs, et \in ExpTypes \ {"number"}}
    \cup {Jwt(n, mid, "undefined", 0) : n \in 1..MaxSegs, mid \in Mids \ {"object"}}

InitTokens ==
    /\ token \in Tokens
    /\ now = 0
    /\ phase = "loading"
    /\ isAuthenticated = FALSE
    /\ pathname \in Paths
    /\ instanceId \in (IF pathname = "/metrics" THEN InstanceIds ELSE {NoId})
    /\ navPending = FALSE
    /\ redirects = 0
    /\ inflight = EmptyBag
    /\ settled = NotSettled
    /\ timers = {}
    /\ pollingIntervalRef = NullRef
    /\ last = Op("load")
    /\ InitialPageState
    /\ InitialFormState

NextTokens ==
    \/ ClockTick
    \/ AuthProviderInit

SpecTokens == InitTokens /\ [][NextTokens]_vars

\* ---------------------------------------------------------------- service errors
\* The catch block of the service functions: what the error thrown by
\* axiosInstance (or by the function's own try block) is turned into.
Services == {"getUserProfile", "login", "register", "getInstances", "registerInstance",
             "startMonitoring", "stopMonitoring", "deleteInstance", "getMetrics",
             "getScalingDecisions", "simulateMetrics"}

\* the fixed phrase of each service function
Fallback(op) ==
    CASE op = "getUserProfile" -> "Failed to fetch user profile."
      [] op = "login" -> "Login failed. Please try again."
      [] op = "register" -> "Registration failed. Please try again."
      [] op = "getInstances" -> "Failed to fetch instances."
      [] op = "registerInstance" -> "Failed to register instance."
      [] op = "startMonitoring" -> "Failed to start monitoring."
      [] op = "stopMonitoring" -> "Failed to stop monitoring."
      [] op = "deleteInstance" -> "Failed to delete instance."
      [] op = "getMetrics" -> "Failed to fetch metrics."
      [] op = "getScalingDecisions" -> "Failed to fetch scaling decisions."
      [] op = "simulateMetrics" -> "Failed to simulate metrics."

\* error.response?.data?.error: undefined (no response, no body, no error
\* field), the empty string, or a text
NoErrorField == [present |-> FALSE, text |-> ""]
ErrorField(text) == [present |-> TRUE, text |-> text]
ErrorFields == {NoErrorField, ErrorField(""), ErrorField("Instance already registered")}

\* what a service function can catch: a rejection of axiosInstance with the
\* status of its response (0: no response at all, also an exception of the
\* try block itself) and the error field of the body
ThrownErrors ==
    {[status |-> s, data |-> f] : s \in Statuses \ {200, 0}, f \in ErrorFields}
    \cup {[status |-> 0, data |-> NoErrorField]}

ErrorMessageOf_FallbackOnly(op, e) == Fallback(op)

\* const errorMessage = error.response?.data?.error || '<fallback>';
\* throw new Error(errorMessage)
ErrorMessageOf(op, e) ==
    IF e.data.present /\ e.data.text # "" THEN e.data.text ELSE Fallback(op)

InitErrors ==
    /\ token = TNoExp
    /\ now = 0
    /\ phase = "mounted"
    /\ isAuthenticated = TRUE
    /\ pathname = "/instances"
    /\ instanceId = NoId
    /\ navPending = FALSE
    /\ redirects = 0
    /\ inflight = EmptyBag
    \* a call of a service function whose request has just been rejected
    /\ settled \in {[kind |-> op, resp |-> e] : op \in Services, e \in ThrownErrors}
    /\ timers = {}
    /\ pollingIntervalRef = NullRef
    /\ last = Op("other")
    /\ InitialPageState
    /\ InitialFormState

\* the catch block of the service function, then the catch block of the page
\* that called it: setError(err.message)
ServiceCatch ==
    /\ settled # NotSettled
    /\ settled' = NotSettled
    /\ formError' = ErrorMessageOf(settled.kind, settled.resp)
    /\ last' = [op |-> settled.kind, resp |-> settled.resp]
    /\ UNCHANGED <<token, now, phase, isAuthenticated, pathname, instanceId, navPending,
                   redirects, inflight, timers, pollingIntervalRef, screenVars, form,
                   formLoading>>

NextErrors == ServiceCatch

SpecErrors == InitErrors /\ [][NextErrors]_vars

\* ---------------------------------------------------------------- password inputs
\* RegisterPage with every short password over one character of each class,
\* and each of them repeated up to one character less than the minimum length
\* and up to the minimum length
PasswordAlphabet == {"A", "a", "1", "!"}
Repeat(x, n) == [i \in 1..n |-> x[((i - 1) % Len(x)) + 1]]
ShortPasswords == UNION {[1..n -> PasswordAlphabet] : n \in 1..MaxChars}
PasswordInputs ==
    Passwords \cup ShortPasswords
    \cup {Repeat(x, MinLength - 1) : x \in ShortPasswords}
    \cup {Repeat(x, MinLength) : x \in ShortPasswords}

InitPasswords ==
    /\ token = NoToken
    /\ now = 0
    /\ phase = "mounted"
    /\ isAuthenticated = FALSE
    /\ pathname = "/register"
    /\ instanceId = NoId
    /\ navPending = FALSE
    /\ redirects = 0
    /\ inflight = EmptyBag
    /\ settled = NotSettled
    /\ timers = {}
    /\ pollingIntervalRef = NullRef
    /\ last = Op("other")
    /\ InitialPageState
    \* the user has typed an address, a password and the same password again
    /\ \E pw \in PasswordInputs :
          form = [EmptyForm EXCEPT !.email = <<"a", "@", "b", ".", "c", "o">>,
                                   !.password = pw, !.confirmPassword = pw]
    /\ formError = NoMessage
    /\ formLoading = FALSE

NextPasswords == RegisterHandleSubmit

SpecPasswords == InitPasswords /\ [][NextPasswords]_vars

\* ---------------------------------------------------------------- steps of a fetchData call
\* this step is the answer to request sub of fetchData call c
AnsweredNow(c, sub) ==
    /\ last'.op = "response"
    /\ c \in cycles
    /\ c[sub] = "pending"
    /\ \A o \in cycles' : o.id = c.id => o[sub] # "pending"

\* this step starts fetchData call c
StartedNow(c) == c \in cycles' /\ \A o \in cycles : o.id # c.id

\* the answer to sub in this step fulfils the inner Promise.all of c: the data of
\* both getMetrics and getScalingDecisions is there
InnerFulfilledNow(c, sub) ==
    /\ AnsweredNow(c, sub)
    /\ sub # "s"
    /\ c.inner = "pending"
    /\ last'.resp.status = 200
    /\ \A x \in {"m", "d"} \ {sub} : c[x] # "pending"

\* the answer to sub in this step rejects fetchData's await: the first failure of
\* getMetrics or getScalingDecisions
RejectedNow(c, sub) ==
    /\ AnsweredNow(c, sub)
    /\ sub # "s"
    /\ c.inner = "pending"
    /\ last'.resp.status # 200

\* the answer to sub in this step fulfils fetchData's await: metrics and decisions
\* are there and getInstances has been answered
FulfilledNow(c, sub) ==
    /\ AnsweredNow(c, sub)
    /\ \/ InnerFulfilledNow(c, sub) /\ c.s # "pending"
       \/ sub = "s" /\ c.inner = "fulfilled"

\* ================================================================ claims
MetricsMounted == phase # "loading" /\ pathname = "/metrics"
Got401 == last.op = "response" /\ last.resp.status = 401

\* C1: whenever the session flag isAuthenticated is true, the token store holds
\* a token that isTokenValid accepts (present, decodable, not expired).
C1_FlagImpliesValidToken ==
    isAuthenticated => (getToken # NoToken /\ isTokenValid(getToken, now))

\* C2: once AuthProvider has initialised and its mount effect has run, the
\* session is authenticated if and only if the store holds a token that
\* isTokenValid accepts; an expired or malformed stored token gives
\* unauthenticated.
C2_StartupAuthIffValid ==
    last.op = "mountEffect" => (isAuthenticated <=> checkAuth(getToken, now))

\* C3: every 401 response clears the token and leaves the session
\* unauthenticated (at once when no page load follows), and the forced logout's
\* redirect to /login happens once in total however many responses fail with 401.
C3_ForcedLogoutOnce ==
    /\ Got401 => getToken = NoToken
    /\ (Got401 /\ ~navPending) => ~isAuthenticated
    /\ redirects <= 1

C5_LogoutClears ==
    last.op = "logout" => (getToken = NoToken /\ ~isAuthenticated)

C5_Witness == last.op = "logout" /\ pathname = "/login" /\ inflight # EmptyBag

\* C6: every request that is sent carries as its Authorization header
\* 'Bearer <token>' for the token the store holds when it is sent, and no
\* Authorization header when the store is empty.
C6_HeaderIsStoredToken ==
    [][\A r \in BagToSet(inflight') :
          CopiesIn(r, inflight') > CopiesIn(r, inflight) =>
              r.auth = (IF token' = NoToken THEN NoHeader ELSE Bearer(token'))]_vars

\* a request sent with an empty store and one sent with a token are in flight
C6_Witness ==
    /\ \E r \in BagToSet(inflight) : r.auth = NoHeader
    /\ \E r \in BagToSet(inflight) : r.auth.scheme = "Bearer" /\ r.auth.cred = getToken

\* C7: a successful response, an error response that is not a 401 and a failure
\* with no response leave the store and the session flag as they were, trigger
\* no navigation, and reach the caller as they arrived.
C7_OtherResponsesPassThrough ==
    [][(last'.op = "response" /\ last'.resp.status # 401) =>
          /\ token' = token
          /\ isAuthenticated' = isAuthenticated
          /\ pathname' = pathname
          /\ navPending' = navPending
          /\ redirects' = redirects
          /\ settled'.resp = last'.resp]_vars

\* an error that is not a 401 has arrived while a token was stored
C7_Witness ==
    /\ last.op = "response" /\ last.resp.status = 500
    /\ getToken # NoToken /\ isAuthenticated /\ ~navPending
    /\ settled.resp.status = 500

\* C8: when the error of a 401 response reaches the caller, the forced logout
\* has taken effect: the token is gone and, off /login, the redirect is under way.
C8_LogoutBeforeCaller ==
    (settled # NotSettled /\ settled.resp.status = 401) =>
        (getToken = NoToken /\ (pathname # "/login" => navPending))

C8_Witness ==
    settled.resp.status = 401 /\ navPending /\ isAuthenticated /\ pathname = "/instances"

\* C9: a 401 always clears the token; it starts the navigation to /login when
\* the current path is not /login, and starts none when it is /login.
C9_RedirectUnlessOnLogin ==
    [][(last'.op = "response" /\ last'.resp.status = 401) =>
          /\ token' = NoToken
          /\ pathname' = pathname
          /\ IF pathname = "/login"
             THEN redirects' = redirects /\ navPending' = navPending
             ELSE redirects' = redirects + 1 /\ navPending']_vars

\* a 401 has arrived on /login and no navigation was started
C9_Witness == Got401 /\ pathname = "/login" /\ ~navPending /\ redirects = 0

\* C10: at most one polling timer is live; the metrics screen, while mounted,
\* has exactly the timer pollingIntervalRef names, created for its current
\* instance id, and no timer outlives the screen or a change of the id.
C10_OneTimer ==
    /\ Cardinality(timers) <= 1
    /\ MetricsMounted => timers = {Timer(pollingIntervalRef, instanceId)}
    /\ ~MetricsMounted => (timers = {} /\ pollingIntervalRef = NullRef)

\* the effect has run again: the second timer is the live one
C10_Witness ==
    MetricsMounted /\ instanceId = "i-2" /\ timers = {Timer(2, "i-2")}

\* C11: once the page's subject has changed, say from i-1 to i-2, no timer for the
\* old subject is left (the old timer is cleared before the new one is created)
\* and no fetch for the old subject is issued any more: every timer of the mounted
\* page and every fetchData call it starts is for the subject it currently shows.
C11_NoFetchForOldSubject ==
    [][/\ \A t \in timers' : t.subject = instanceId'
       /\ \A c \in cycles' : (PageMounted' /\ \A o \in cycles : o.id # c.id)
                                => c.subject = instanceId']_vars

\* C12: a background (timer-triggered) fetch never changes the loading indicator;
\* when it succeeds it replaces the displayed metrics and decisions by the ones it
\* fetched and leaves the error null; when it fails it sets no error message.
C12_BackgroundFetch ==
    [][/\ \A c \in cycles' : (StartedNow(c) /\ c.by = "timer") => loading' = loading
       /\ \A c \in cycles : \A sub \in SubRequests :
            (PageMounted /\ c.by = "timer" /\ AnsweredNow(c, sub)) =>
                /\ loading' = loading
                /\ InnerFulfilledNow(c, sub) => (metrics' = c.id /\ decisions' = c.id)
                /\ FulfilledNow(c, sub) => error' = NoError
                /\ RejectedNow(c, sub) => error' = error
                /\ error' \in {error, NoError}]_vars

\* the poll of timer 1 has brought the data of the second fetchData call
C12_Witness ==
    /\ PageMounted
    /\ timers = {Timer(1, "i-1")}
    /\ nextCycle = 2
    /\ cycles = {}
    /\ metrics = 2
    /\ decisions = 2
    /\ error = NoError
    /\ ~loading
    /\ last.op = "response"

\* C13: a background refresh that fails leaves the displayed error and the loading
\* state as they were before it started: neither its start (nothing tells a
\* refresh that will fail from one that will not) nor the arrival of its failure
\* changes them, so an error shown by an earlier foreground fetch is still shown.
C13_FailedBackgroundKeepsError ==
    [][/\ \A c \in cycles' : (StartedNow(c) /\ c.by = "timer") =>
            (error' = error /\ loading' = loading)
       /\ \A c \in cycles : \A sub \in SubRequests :
            (PageMounted /\ c.by = "timer" /\ RejectedNow(c, sub)) =>
                (error' = error /\ loading' = loading)]_vars

\* C14 as stated: in a foreground fetchData call, the failure of any one of its
\* requests (getMetrics, getScalingDecisions, getInstances) that arrives while
\* the call is still awaited becomes the error message of the screen.
C14_AnyFailureReported ==
    [][\A c \in cycles : \A sub \in SubRequests :
          (/\ PageMounted
           /\ c.by # "timer"
           /\ OuterPending(c)
           /\ AnsweredNow(c, sub)
           /\ last'.resp.status # 200)
          => error' = [from |-> sub, status |-> last'.resp.status]]_vars

\* C14 amended: in a foreground fetchData call the first failure of getMetrics or
\* getScalingDecisions becomes the error message of the screen and ends the
\* spinner, a later failure of the other one changes nothing, and a failure of
\* getInstances (the instance status) is never reported.
C14_MetricsOrDecisionsFailureReported ==
    [][\A c \in cycles : \A sub \in SubRequests :
          (/\ PageMounted
           /\ c.by # "timer"
           /\ AnsweredNow(c, sub)
           /\ last'.resp.status # 200)
          => /\ RejectedNow(c, sub) =>
                    /\ error' = [from |-> sub, status |-> last'.resp.status]
                    /\ ~loading'
             /\ (sub # "s" /\ c.inner = "rejected") => error' = error
             /\ sub = "s" => error' = (IF c.inner = "fulfilled" THEN NoError ELSE error)]_vars

\* the first call's getInstances failed and went unreported, then its
\* getScalingDecisions failed and was reported
C14_Witness ==
    /\ PageMounted
    /\ nextCycle = 1
    /\ \E c \in cycles : c.s = "answered" /\ c.d = "answered" /\ c.m = "pending"
    /\ isMonitoring = NoCycle
    /\ error = [from |-> "d", status |-> 500]
    /\ ~loading

\* C15 as stated: a fetchData call issues its three requests before it awaits any
\* of them, and no answer that leaves another request of the call unanswered
\* changes a displayed slot (metrics, decisions, monitoring status, error).
C15_SlotsWaitForAll ==
    [][/\ \A c \in cycles' : StartedNow(c) => \A sub \in SubRequests : c[sub] = "pending"
       /\ \A c \in cycles : \A sub \in SubRequests :
            (/\ AnsweredNow(c, sub)
             /\ \E x \in SubRequests \ {sub} : c[x] = "pending")
            => UNCHANGED <<metrics, decisions, isMonitoring, error>>]_vars

\* C15 amended: a fetchData call issues its three requests before it awaits any of
\* them, and each slot is updated as soon as what it depends on is there, whatever
\* else is unanswered: metrics and decisions together when getMetrics and
\* getScalingDecisions have both succeeded, the monitoring status when
\* getInstances succeeds, the error when the call's await is rejected (foreground
\* only) or fulfilled; no other answer changes a slot.
C15_SlotsUpdatedAsAnswered ==
    [][/\ \A c \in cycles' : StartedNow(c) => \A sub \in SubRequests : c[sub] = "pending"
       /\ \A c \in cycles : \A sub \in SubRequests :
            (PageMounted /\ AnsweredNow(c, sub)) =>
                /\ IF InnerFulfilledNow(c, sub)
                   THEN metrics' = c.id /\ decisions' = c.id
                   ELSE UNCHANGED <<metrics, decisions>>
                /\ IF sub = "s" /\ last'.resp.status = 200
                   THEN isMonitoring' = c.id
                   ELSE UNCHANGED isMonitoring
                /\ error' # error => (RejectedNow(c, sub) \/ FulfilledNow(c, sub))]_vars

\* the screen shows the metrics of the first call while its getInstances is
\* unanswered
C15_Witness ==
    /\ PageMounted
    /\ metrics = 1
    /\ decisions = 1
    /\ isMonitoring = NoCycle
    /\ \E c \in cycles : c.id = 1 /\ c.s = "pending" /\ c.inner = "fulfilled"

\* C16 as stated: fetchData calls overlap freely and, once the calls in flight have
\* succeeded, every slot shows the data of the call that was answered last: when a
\* call's await is fulfilled and no other call has a request unanswered, metrics,
\* decisions and monitoring status are those of that call.
C16_LastAnsweredCallWins ==
    [][\A c \in cycles : \A sub \in SubRequests :
          (/\ PageMounted
           /\ FulfilledNow(c, sub)
           /\ cycles \ {c} = {})
          => (metrics' = c.id /\ decisions' = c.id)]_vars

\* C16 amended: fetchData calls overlap freely (a call starts whatever is in
\* flight) and each slot is won by the last write to it, whichever call was issued
\* first: metrics and decisions by the call whose getMetrics and
\* getScalingDecisions were the last to have both succeeded, the monitoring
\* status by the call whose getInstances succeeded last.  The two need not be the
\* same call, nor the call that was answered last.
C16_LastWritePerSlotWins ==
    [][/\ \A c \in cycles : \A sub \in SubRequests :
            (PageMounted /\ AnsweredNow(c, sub)) =>
                /\ InnerFulfilledNow(c, sub) => (metrics' = c.id /\ decisions' = c.id)
                /\ (sub = "s" /\ last'.resp.status = 200) => isMonitoring' = c.id
       /\ \A c \in cycles' : StartedNow(c) => cycles \subseteq cycles']_vars

\* the second call's metrics and decisions arrived first and were shown, then the
\* first call's arrived and replaced them
C16_Witness ==
    /\ PageMounted
    /\ nextCycle = 2
    /\ metrics = 1
    /\ decisions = 1
    /\ \E c \in cycles : c.id = 2 /\ c.inner = "fulfilled"

C18_BackgroundPoll401LogsOut ==
    [][\A c \in cycles : \A sub \in SubRequests :
          (c.by = "timer" /\ AnsweredNow(c, sub) /\ last'.resp.status = 401) =>
              /\ token' = NoToken
              /\ IF pathname # "/login"
                 THEN navPending' /\ redirects' = redirects + 1
                 ELSE UNCHANGED <<navPending, redirects>>
              /\ error' \in {error, NoError}]_vars

\* the first call was answered in full and with success, so the 401 just received
\* answers the poll of timer 1; the user is logged out and no error is shown
C18_Witness ==
    /\ PageMounted
    /\ Got401
    /\ timers = {Timer(1, "i-1")}
    /\ nextCycle = 2
    /\ metrics = 1
    /\ isMonitoring = 1
    /\ \A c \in cycles : c.id = 2
    /\ getToken = NoToken
    /\ navPending
    /\ redirects = 1
    /\ error = NoError

\* ---------------------------------------------------------------- C19
\* the submission read a form that the page's local validation rejects
FailsLocalValidation ==
    \/ /\ pathname = "/login"
       /\ ~isValidEmail(form.email) \/ ~isValidPassword(form.password)
    \/ /\ pathname = "/register"
       /\ \/ form.email = <<>> \/ form.password = <<>> \/ form.confirmPassword = <<>>
          \/ ~isValidEmail(form.email)
          \/ ~isValidPassword(form.password)
          \/ form.password # form.confirmPassword
    \/ /\ pathname = "/instances"
       /\ form.instanceId = "" \/ form.region = ""

\* C19: a submission of the login form, the registration form or the instance
\* registration form whose fields fail the local validation (invalid email
\* shape or password composition; an empty field, invalid email, invalid
\* password or mismatching confirmation; a missing instance id or region)
\* sends no request: the requests in flight are the same after the handler
\* has run, and the page shows a message.
C19_InvalidFormSendsNothing ==
    [][(last'.op = "submit" /\ FailsLocalValidation)
        => (inflight' = inflight /\ formError' # NoMessage /\ ~formLoading')]_vars

\* a registration whose only fault is the confirmation has been submitted and
\* has stopped with its message, nothing in flight
C19_Witness ==
    /\ last.op = "submit"
    /\ pathname = "/register"
    /\ isValidEmail(form.email)
    /\ isValidPassword(form.password)
    /\ form.confirmPassword # <<>>
    /\ formError = "Passwords do not match"
    /\ inflight = EmptyBag

\* ---------------------------------------------------------------- C20
\* the token does not split into exactly three segments, or atob throws on
\* its middle segment, or that segment does not decode to a JSON object
Malformed(t) ==
    \/ t.segs # 3
    \/ t.mid = "bad64"
    \/ t.mid # "object"

\* C20: isTokenValid returns false for every malformed token: when the
\* application has started (AuthProvider's initialiser has applied
\* isTokenValid to the stored string) with a token that has not exactly three
\* segments, whose middle segment atob rejects, or whose middle segment does
\* not decode to a JSON object, the session flag is false.
C20_MalformedTokenInvalid ==
    (last.op = "init" /\ Malformed(token)) => ~isAuthenticated

\* ---------------------------------------------------------------- C21
\* three segments whose middle one decodes to a JSON object
WellFormed(t) == t.segs = 3 /\ t.mid = "object"

\* C21: for a well-formed token isTokenValid returns true when the payload
\* has no exp claim, and otherwise exactly when exp is strictly greater than
\* the second of the call: when the application has started with such a
\* token, the session flag is true if the payload has no exp, and otherwise
\* it is true if and only if exp is a number greater than now.
C21_ValidIffNoExpOrExpAfterNow ==
    (last.op = "init" /\ WellFormed(token))
        => (isAuthenticated <=> (\/ token.expType = "undefined"
                                 \/ token.expType = "number" /\ token.exp > now))

\* ---------------------------------------------------------------- C22
ProtectedPaths == {"/instances", "/metrics"}

\* C22: an unauthenticated user who opens a protected route (/instances or
\* the metrics route) is redirected to /login and the protected page is not
\* rendered: when the first render of a document loaded at a protected path
\* finds the session flag false, the path becomes /login, no effect of a
\* protected page runs (no request is sent, no timer is created).
C22_ProtectedRouteToLogin ==
    [][(phase = "loading" /\ phase' = "rendered" /\ pathname \in ProtectedPaths
        /\ ~isAuthenticated')
        => (pathname' = "/login" /\ inflight' = inflight /\ timers' = timers)]_vars

\* ---------------------------------------------------------------- C23
PublicPaths == {"/login", "/register"}

C24_FailedRequestNotResent ==
    [][/\ (last'.op = "response" /\ last'.resp.status # 200)
            => /\ BagCardinality(inflight') = BagCardinality(inflight) - 1
               /\ inflight' \sqsubseteq inflight
               /\ settled' # NotSettled
               /\ settled'.resp = last'.resp
       /\ (settled # NotSettled /\ settled.resp.status # 200 /\ settled' = NotSettled)
            => inflight' = inflight]_vars

\* a 401 has been taken off the wire and handed to its caller, and nothing is
\* in flight
C24_Witness ==
    /\ last.op = "response"
    /\ last.resp.status = 401
    /\ settled # NotSettled
    /\ settled.resp.status = 401
    /\ inflight = EmptyBag

\* ---------------------------------------------------------------- C25
\* C25: every service function replaces the error it catches by a new Error
\* whose message is the backend's error string (response.data.error) when
\* that field is present, and otherwise the fixed phrase of the operation.
C25_MessageIsBackendErrorIfPresent ==
    (last.op \in Services)
        => formError = (IF last.resp.data.present THEN last.resp.data.text
                        ELSE Fallback(last.op))

\* C25 as the code has it: the message is the backend's error string when the
\* field is present and not empty, and otherwise (no response, no body, no
\* error field, an empty error string) the fixed phrase of the operation.
C25_MessageIsNonEmptyBackendError ==
    (last.op \in Services)
        => formError = (IF last.resp.data.present /\ last.resp.data.text # ""
                        THEN last.resp.data.text
                        ELSE Fallback(last.op))

\* registerInstance has failed with a message of the backend, and the page
\* shows that message
C25_Witness ==
    /\ last.op = "registerInstance"
    /\ last.resp.status = 500
    /\ formError = "Instance already registered"

\* ---------------------------------------------------------------- C26
\* the five rules as the claim states them
FiveRules(p) ==
    [minLength |-> Len(p) >= 8,
     uppercase |-> \E i \in 1..Len(p) : p[i] \in Upper,
     lowercase |-> \E i \in 1..Len(p) : p[i] \in Lower,
     number    |-> \E i \in 1..Len(p) : p[i] \in Digits,
     special   |-> \E i \in 1..Len(p) : ~(p[i] \in Upper \/ p[i] \in Lower \/ p[i] \in Digits)]
AllFive(p) ==
    /\ FiveRules(p).minLength /\ FiveRules(p).uppercase /\ FiveRules(p).lowercase
    /\ FiveRules(p).number /\ FiveRules(p).special

PasswordMessage ==
    "Password must be at least 8 characters and include uppercase, lowercase, a number, and a special character"

\* C26: validatePasswordRules reports five independent rules (minLength iff
\* the length is at least 8, uppercase, lowercase, number, special iff some
\* character is neither a letter nor a digit) and isPasswordValid is true iff
\* all five hold: for the password of a submitted registration the rules are
\* those five, the registration is sent exactly when all five hold and is
\* stopped with the password message otherwise; "abc" fails minLength,
\* uppercase, number and special, and "Abcdef1!" satisfies all five.
C26_FiveRules ==
    [][(last'.op = "submit" /\ pathname = "/register" /\ form.password # <<>>)
        => /\ validatePasswordRules(form.password) = FiveRules(form.password)
           /\ isPasswordValid(form.password) <=> AllFive(form.password)
           /\ AllFive(form.password) <=> inflight' # inflight
           /\ ~AllFive(form.password) <=> formError' = PasswordMessage
           /\ validatePasswordRules(<<"a", "b", "c">>) =
                 [minLength |-> FALSE, uppercase |-> FALSE, lowercase |-> TRUE,
                  number |-> FALSE, special |-> FALSE]
           /\ validatePasswordRules(<<"A", "b", "c", "d", "e", "f", "1", "!">>) =
                 [minLength |-> TRUE, uppercase |-> TRUE, lowercase |-> TRUE,
                  number |-> TRUE, special |-> TRUE]]_vars

\* a registration was stopped for a password of the minimum length with an
\* uppercase letter, a lowercase letter and a digit, but no special character
C26_Witness ==
    /\ last.op = "submit"
    /\ pathname = "/register"
    /\ Len(form.password) = 8
    /\ \E i \in 1..Len(form.password) : form.password[i] \in Upper
    /\ \E i \in 1..Len(form.password) : form.password[i] \in Lower
    /\ \E i \in 1..Len(form.password) : form.password[i] \in Digits
    /\ formError = PasswordMessage
    /\ inflight = EmptyBag

\* ---------------------------------------------------------------- C27
\* C27: a 401 clears the store only when the store still holds the token the
\* failing request carried: when the answer 401 arrives for a request whose
\* Authorization header is not the one the stored token would give (the
\* request was sent before a later login stored another token), the store is
\* left as it is.
C27_Late401KeepsNewToken ==
    [][\A r \in BagToSet(inflight) :
          (/\ last'.op = "response"
           /\ last'.resp.status = 401
           /\ inflight' = inflight (-) SetToBag({r})
           /\ token # NoToken
           /\ r.auth # RequestHeader(token))
          => token' = token]_vars

\* ---------------------------------------------------------------- C28
\* a foreground fetchData call whose promise has not settled
ForegroundInFlight ==
    \E c \in cycles : ~IsBackgroundRefresh(c.by) /\ OuterPending(c)

\* C28: on the metrics screen loading is true whenever at least one
\* foreground fetch is in flight; with two overlapping foreground fetches it
\* does not become false until the last of them has settled.
C28_LoadingWhileForegroundInFlight ==
    (PageMounted /\ ForegroundInFlight) => loading

\* ---------------------------------------------------------------- C29
\* C29: after the subject of the metrics screen has changed from i-1 to i-2,
\* the displayed metrics, decisions and monitoring status are never
\* overwritten by the answer to a fetch that was issued for i-1: an answer to
\* a fetchData call for another subject than the one on screen changes none
\* of the three slots.
C29_StaleAnswerIgnored ==
    [][\A c \in cycles : \A sub \in SubRequests :
          (PageMounted /\ AnsweredNow(c, sub) /\ c.subject # instanceId)
          => (metrics' = metrics /\ decisions' = decisions
              /\ isMonitoring' = isMonitoring)]_vars

\* C29 as the code has it: there is no staleness guard.  While the page stays
\* mounted, a fetchData call issued for the old subject writes its metrics and
\* decisions into the slots when its pair of requests resolves after the
\* switch, and its monitoring status when its status request is answered with
\* success, whatever the slots show; only an answer that fails, or that
\* leaves the pair incomplete, changes nothing.
C29_StaleAnswerOverwrites ==
    [][\A c \in cycles : \A sub \in SubRequests :
          (PageMounted /\ AnsweredNow(c, sub) /\ c.subject # instanceId)
          => /\ IF InnerFulfilledNow(c, sub)
                THEN metrics' = c.id /\ decisions' = c.id
                ELSE metrics' = metrics /\ decisions' = decisions
             /\ IF sub = "s" /\ last'.resp.status = 200
                THEN isMonitoring' = c.id
                ELSE isMonitoring' = isMonitoring]_vars

\* the screen shows i-2, the call for i-2 has brought its metrics and
\* decisions, and the slots show those of the earlier call for i-1
C29_Witness ==
    /\ PageMounted
    /\ instanceId = "i-2"
    /\ metrics = 1
    /\ decisions = 1
    /\ \E c \in cycles : c.id = 2 /\ c.subject = "i-2" /\ c.inner = "fulfilled"

\* ---------------------------------------------------------------- C30
\* C30: while the metrics screen stays on with one subject, polling goes on
\* whatever the fetches answer: the page has exactly one live timer, for its
\* subject, from its first effect on; an answer that fails (to a foreground or
\* to a background fetch) leaves the timer and the ref as they are; and the
\* timer's callback can start a background fetch in every such state (as
\* long as the model's budget of calls lasts), whatever error or loading
\* state the page shows.
C30_PollingSurvivesFailures ==
    [][/\ (PageMounted /\ EffectsRun)
            => /\ timers = {Timer(pollingIntervalRef, instanceId)}
               /\ nextCycle < MaxCycles => ENABLED (\E t \in timers : PollTick(t))
       /\ (PageMounted /\ last'.op = "response" /\ last'.resp.status # 200)
            => (timers' = timers /\ pollingIntervalRef' = pollingIntervalRef)
       /\ \A c \in cycles' :
            (StartedNow(c) /\ c.by = "timer") => (timers' = timers /\ c.subject = instanceId)]_vars

\* the first fetch of the screen has failed (nothing is displayed, the
\* spinner is gone) and the timer has started a background fetch after it
C30_Witness ==
    /\ PageMounted
    /\ ~loading
    /\ metrics = NoCycle
    /\ timers = {Timer(pollingIntervalRef, instanceId)}
    /\ \E c \in cycles : c.id = 2 /\ c.by = "timer" /\ c.inner = "pending"
    /\ \A c \in cycles : c.id # 1

====
